---------------------------- MODULE Spec2Model ----------------------------
(***************************************************************************)
(* Model of keski.py: the GEDCOM line parser (parse_gedcom_to_df), the     *)
(* year extractor (extract_year) and the decade aggregation of the upload  *)
(* handler.                                                                *)
(*                                                                         *)
(* Text is a sequence of one-character strings.  A Python value that may   *)
(* be None is modelled as a sequence of length at most one: None is <<>>   *)
(* and a present value x is <<x>>.                                         *)
(***************************************************************************)
EXTENDS Integers, Sequences, FiniteSets, TLC

VARIABLES
    pc,            \* position in the program
    lines,         \* the lines of file_content iterated so far
    individuals,   \* parse_gedcom_to_df: the list of finished records
    current_indi,  \* parse_gedcom_to_df: the record under construction, or None
    last_tag,      \* parse_gedcom_to_df: the remembered depth-1 tag, or None
    date_str,      \* extract_year: its argument (None or a text)
    year,          \* extract_year: its result (None or an integer)
    start_year,    \* first birth year of the range
    end_year,      \* last birth year of the range
    df,            \* the handler's data frame df
    filtered_df,   \* the handler's data frame filtered_df
    stats,         \* the statistics table
    shown          \* the two counts of the st.info message, or None

vars == <<pc, lines, individuals, current_indi, last_tag, date_str, year,
          start_year, end_year, df, filtered_df, stats, shown>>

parserVars == <<lines, individuals, current_indi, last_tag>>
yearVars == <<date_str, year>>
aggVars == <<start_year, end_year, df, filtered_df, stats, shown>>

-----------------------------------------------------------------------------
(* Bounds of the model *)

MaxLines == 4
MaxRecords == 2
MaxFragLen == 5

-----------------------------------------------------------------------------
(* Optional values *)

None == <<>>
Some(x) == <<x>>
Val(o) == o[1]

-----------------------------------------------------------------------------
(* Text *)

Digits == {"0", "1", "2", "3", "4", "5", "6", "7", "8", "9"}

DigitVal(c) ==
    CASE c = "0" -> 0 [] c = "1" -> 1 [] c = "2" -> 2 [] c = "3" -> 3
      [] c = "4" -> 4 [] c = "5" -> 5 [] c = "6" -> 6 [] c = "7" -> 7
      [] c = "8" -> 8 [] c = "9" -> 9

Whitespace == {" ", "\t"}

\* str.strip(): leading and trailing whitespace removed
RECURSIVE LStrip(_)
LStrip(s) ==
    IF s # <<>> /\ Head(s) \in Whitespace THEN LStrip(Tail(s)) ELSE s

RECURSIVE RStrip(_)
RStrip(s) ==
    IF s # <<>> /\ s[Len(s)] \in Whitespace
    THEN RStrip(SubSeq(s, 1, Len(s) - 1))
    ELSE s

Strip(s) == RStrip(LStrip(s))

\* index of the first space of s, 0 when it has none
FirstSpace(s) ==
    IF \E i \in 1..Len(s) : s[i] = " "
    THEN CHOOSE i \in 1..Len(s) : s[i] = " " /\ \A j \in 1..(i - 1) : s[j] # " "
    ELSE 0

\* str.split(' ', maxsplit): cut at each of the first maxsplit spaces
RECURSIVE Split(_, _)
Split(s, maxsplit) ==
    LET i == FirstSpace(s)
    IN  IF maxsplit = 0 \/ i = 0
        THEN <<s>>
        ELSE <<SubSeq(s, 1, i - 1)>> \o Split(SubSeq(s, i + 1, Len(s)), maxsplit - 1)

-----------------------------------------------------------------------------
(* extract_year *)

IsDigitsAt(s, i) ==
    /\ i + 3 <= Len(s)
    /\ \A k \in 0..3 : s[i + k] \in Digits

\* re.search(r'\d{4}', s): the leftmost position where four digits follow
\* one another, 0 when there is none
ReSearch4(s) ==
    IF \E i \in 1..Len(s) : IsDigitsAt(s, i)
    THEN CHOOSE i \in 1..Len(s) :
            IsDigitsAt(s, i) /\ \A j \in 1..(i - 1) : ~IsDigitsAt(s, j)
    ELSE 0

\* int() of the four digits matched at i
IntAt(s, i) ==
    1000 * DigitVal(s[i]) + 100 * DigitVal(s[i + 1])
      + 10 * DigitVal(s[i + 2]) + DigitVal(s[i + 3])

\* extract_year(d), d being None or a text
extract_year(d) ==
    IF d = None \/ Val(d) = <<>>
    THEN None
    ELSE LET m == ReSearch4(Val(d))
         IN  IF m # 0 THEN Some(IntAt(Val(d), m)) ELSE None

-----------------------------------------------------------------------------
(* The words of the format and the input lines of the model *)

SP == <<" ">>
INDI == <<"I", "N", "D", "I">>
BIRT == <<"B", "I", "R", "T">>
DEAT == <<"D", "E", "A", "T">>
DATE == <<"D", "A", "T", "E">>
NAME == <<"N", "A", "M", "E">>
PLAC == <<"P", "L", "A", "C">>
FAM == <<"F", "A", "M">>
IdA == <<"@", "A", "@">>
IdB == <<"@", "B", "@">>
IdF == <<"@", "F", "@">>

\* the lines a file is made of in the model
InputLines ==
    { <<"0">> \o SP \o IdA \o SP \o INDI,
      SP \o <<"0">> \o SP \o IdB \o SP \o INDI \o SP,
      <<"0">> \o SP \o IdF \o SP \o FAM,
      <<"1">> \o SP \o BIRT,
      <<"1">> \o SP \o DEAT,
      <<"1">> \o SP \o NAME \o SP \o <<"X">>,
      <<"2">> \o SP \o DATE \o SP \o <<"1", "8", "0", "5">>,
      <<"2">> \o SP \o DATE \o SP \o <<"A", "B", "T">> \o SP \o <<"1", "8", "7", "5">>,
      <<"2">> \o SP \o DATE \o SP \o <<"J", "A", "N">>,
      <<"2">> \o SP \o PLAC \o SP \o <<"X">>,
      <<"3">> \o SP \o DATE \o SP \o <<"1", "8", "0", "5">>,
      <<"1">> }

-----------------------------------------------------------------------------
(* parse_gedcom_to_df *)

\* NewIndi taking the id from the payload, the wrong part of the line
NewIndi_FromPayload(tag) ==
    [id |-> INDI, birth_year |-> None, death_year |-> None]

\* the record a new individual starts as
NewIndi(tag) == [id |-> tag, birth_year |-> None, death_year |-> None]

\* Finalize that puts the record at the front of the list
Finalize_AtFront(inds, cur) ==
    IF cur # None THEN <<Val(cur)>> \o inds ELSE inds

\* Finalize with the append forgotten
Finalize_NoAppend(inds, cur) == inds

\* "if current_indi: individuals.append(current_indi)"; a record is a dict
\* with three keys, so it is true whenever it is not None
Finalize(inds, cur) ==
    IF cur # None THEN Append(inds, Val(cur)) ELSE inds

\* the test that a line starts a new individual
IsNewIndi(level, payload) == level = <<"0">> /\ payload = INDI

\* NextLastTag that keeps the event over depth-2 lines only
NextLastTag_ClearOnOther(level, tag, last) ==
    IF level = <<"1">> /\ tag \in {BIRT, DEAT} THEN Some(tag)
    ELSE IF level = <<"2">> THEN last
    ELSE None

\* NextLastTag that never forgets an event: another depth-1 tag leaves it
NextLastTag_NoClear(level, tag, last) ==
    IF level = <<"1">> /\ tag \in {BIRT, DEAT} THEN Some(tag) ELSE last

\* last_tag after a line with this level and tag
NextLastTag(level, tag, last) ==
    IF level = <<"1">>
    THEN IF tag \in {BIRT, DEAT} THEN Some(tag) ELSE None
    ELSE last

\* the test that a line is a date line of a remembered event
IsEventDate(level, tag, last) ==
    level = <<"2">> /\ tag = DATE /\ last # None /\ Val(last) # <<>>

\* StoreYear in which the first date of an event wins
StoreYear_FirstWins(indi, last, payload) ==
    IF Val(last) = BIRT /\ indi.birth_year = None
    THEN [indi EXCEPT !.birth_year = extract_year(Some(payload))]
    ELSE IF Val(last) = DEAT /\ indi.death_year = None
         THEN [indi EXCEPT !.death_year = extract_year(Some(payload))]
         ELSE indi

\* StoreYear that keeps the year it has when the new date gives none
StoreYear_KeepParsed(indi, last, payload) ==
    LET y == extract_year(Some(payload))
    IN  IF y = None THEN indi
        ELSE IF Val(last) = BIRT THEN [indi EXCEPT !.birth_year = y]
        ELSE IF Val(last) = DEAT THEN [indi EXCEPT !.death_year = y]
        ELSE indi

\* the record after a date line with this payload
StoreYear(indi, last, payload) ==
    IF Val(last) = BIRT
    THEN [indi EXCEPT !.birth_year = extract_year(Some(payload))]
    ELSE IF Val(last) = DEAT
         THEN [indi EXCEPT !.death_year = extract_year(Some(payload))]
         ELSE indi

\* line.strip().split(' ', 2) of each input line
Parts == [l \in InputLines |-> Split(Strip(l), 2)]

\* one pass of the loop over the lines, for the next line of the file
ParseLine(line) ==
    LET parts == Parts[line]
        level == parts[1]
        tag == parts[2]
        payload == IF Len(parts) > 2 THEN parts[3] ELSE <<>>
        newLast == NextLastTag(level, tag, last_tag)
    IN  /\ pc = "parsing"
        /\ Len(lines) < MaxLines
        /\ lines' = Append(lines, line)
        /\ IF Len(parts) <= 1
           THEN UNCHANGED <<individuals, current_indi, last_tag>>
           ELSE IF IsNewIndi(level, payload)
           THEN /\ individuals' = Finalize(individuals, current_indi)
                /\ current_indi' = Some(NewIndi(tag))
                /\ last_tag' = None
           ELSE IF current_indi # None
           THEN /\ last_tag' = newLast
                /\ current_indi' =
                      IF IsEventDate(level, tag, newLast)
                      THEN Some(StoreYear(Val(current_indi), newLast, payload))
                      ELSE current_indi
                /\ UNCHANGED individuals
           ELSE UNCHANGED <<individuals, current_indi, last_tag>>
        /\ UNCHANGED <<pc, yearVars, aggVars>>

ReadLine == \E line \in InputLines : ParseLine(line)

\* pd.DataFrame(list of dicts): one row per dict, the columns being the keys
\* met in the dicts, so an empty list gives a frame with no column at all
DataFrame(inds) ==
    [columns |-> IF inds = <<>> THEN {} ELSE {"id", "birth_year", "death_year"},
     rows |-> inds]

\* the end of the loop: the last individual is added and the list returned
\* as a data frame, which the handler names df
Return ==
    /\ pc = "parsing"
    /\ individuals' = Finalize(individuals, current_indi)
    /\ df' = DataFrame(individuals')
    /\ pc' = "returned"
    /\ UNCHANGED <<lines, current_indi, last_tag, yearVars>>
    /\ UNCHANGED <<start_year, end_year, filtered_df, stats, shown>>

DefaultStart == 1800
DefaultEnd == 1899

Init ==
    /\ pc = "parsing"
    /\ lines = <<>>
    /\ individuals = <<>>
    /\ current_indi = None
    /\ last_tag = None
    /\ date_str = None
    /\ year = None
    /\ start_year = DefaultStart
    /\ end_year = DefaultEnd
    /\ df = None
    /\ filtered_df = None
    /\ stats = <<>>
    /\ shown = None

Next == ReadLine \/ Return

Spec == Init /\ [][Next]_vars

-----------------------------------------------------------------------------
(* extract_year called on its own *)

FragChars == {"1", "8", "A", " "}

InitYear ==
    /\ pc = "call"
    /\ \/ date_str = None
       \/ \E n \in 0..MaxFragLen : \E s \in [1..n -> FragChars] :
             date_str = Some(s)
    /\ year = None
    /\ lines = <<>>
    /\ individuals = <<>>
    /\ current_indi = None
    /\ last_tag = None
    /\ start_year = DefaultStart
    /\ end_year = DefaultEnd
    /\ df = None
    /\ filtered_df = None
    /\ stats = <<>>
    /\ shown = None

CallExtractYear ==
    /\ pc = "call"
    /\ year' = extract_year(date_str)
    /\ pc' = "ret"
    /\ UNCHANGED <<date_str, parserVars, aggVars>>

NextYear == CallExtractYear

SpecYear == InitYear /\ [][NextYear]_vars

-----------------------------------------------------------------------------
(* The upload handler: filtering and the decade statistics *)

MaxAge == 120
DecadeStep == 10

\* a ratio of two integers, in lowest terms (the value of a float column)
RECURSIVE GCD(_, _)
GCD(a, b) == IF b = 0 THEN a ELSE GCD(b, a % b)

Frac(n, d) == LET g == GCD(n, d) IN [num |-> n \div g, den |-> d \div g]

RECURSIVE SumSeq(_)
SumSeq(s) == IF s = <<>> THEN 0 ELSE Head(s) + SumSeq(Tail(s))

\* the members of a set of integers in ascending order
RECURSIVE Sorted(_)
Sorted(S) ==
    IF S = {} THEN <<>>
    ELSE LET m == CHOOSE x \in S : \A y \in S : x <= y
         IN  <<m>> \o Sorted(S \ {m})

RECURSIVE Flatten(_)
Flatten(ss) == IF ss = <<>> THEN <<>> ELSE Head(ss) \o Flatten(Tail(ss))

\* df.dropna(subset=['birth_year', 'death_year']) looks the two columns up
\* first and raises KeyError when the frame does not have them
HasYearColumns(frame) == {"birth_year", "death_year"} \subseteq frame.columns

BothYears(r) == r.birth_year # None /\ r.death_year # None

DropNaRows(rows) == SelectSeq(rows, BothYears)

Age(r) == Val(r.death_year) - Val(r.birth_year)

WithAge(r) ==
    [id |-> r.id, birth_year |-> r.birth_year, death_year |-> r.death_year,
     age |-> Age(r)]

\* PlausibleAge with the upper bound off by one
PlausibleAge_Inclusive(r) == r.age >= 0 /\ r.age <= MaxAge

PlausibleAge(r) == r.age >= 0 /\ r.age < MaxAge

InRange(r) == Val(r.birth_year) >= start_year /\ Val(r.birth_year) <= end_year

\* Decade rounding to the nearest ten instead of down
Decade_Nearest(r) == ((Val(r.birth_year) + 5) \div 10) * 10

\* (birth_year // 10) * 10
Decade(r) == (Val(r.birth_year) \div 10) * 10

\* groupby('decade')['age'].agg(['mean', 'count']).reset_index(): one row per
\* decade met, in ascending order
GroupRow(rows, d) ==
    LET InD(r) == Decade(r) = d
        g == SelectSeq(rows, InD)
        ages == [i \in 1..Len(g) |-> g[i].age]
    IN  [Vuosikymmen |-> d,
         Keski_ika |-> Some(Frac(SumSeq(ages), Len(g))),
         Henkilomaara |-> Some(Len(g))]

GroupBy(rows) ==
    LET ds == Sorted({Decade(rows[i]) : i \in 1..Len(rows)})
    IN  [k \in 1..Len(ds) |-> GroupRow(rows, ds[k])]

\* AllDecades that starts one step late
AllDecades_SkipFirst(start, end) ==
    IF end < start + DecadeStep THEN <<>>
    ELSE [k \in 1..((end - start) \div DecadeStep) |-> start + DecadeStep * k]

\* range(start_year, end_year + 1, 10)
AllDecades(start, end) ==
    IF end < start THEN <<>>
    ELSE [k \in 1..((end - start) \div DecadeStep + 1) |->
             start + DecadeStep * (k - 1)]

\* LeftMerge as an inner join: a decade with no group gets no row
LeftMerge_Inner(left, right) ==
    Flatten([k \in 1..Len(left) |->
        LET Match(r) == r.Vuosikymmen = left[k]
        IN  SelectSeq(right, Match)])

\* pd.merge(all_decades, stats, on='Vuosikymmen', how='left'): for each row
\* of the left side in turn, the rows of the right side with its key, or one
\* row of missing values when there is none
LeftMerge(left, right) ==
    Flatten([k \in 1..Len(left) |->
        LET Match(r) == r.Vuosikymmen = left[k]
            m == SelectSeq(right, Match)
        IN  IF m = <<>>
            THEN <<[Vuosikymmen |-> left[k], Keski_ika |-> None,
                    Henkilomaara |-> None]>>
            ELSE m])

\* .fillna(0)
FillNa(row) ==
    [Vuosikymmen |-> row.Vuosikymmen,
     Keski_ika |-> IF row.Keski_ika = None THEN Frac(0, 1) ELSE Val(row.Keski_ika),
     Henkilomaara |-> IF row.Henkilomaara = None THEN 0 ELSE Val(row.Henkilomaara)]

\* .round(1): to the nearest tenth, a tie going to the even tenth
Round1(q) ==
    LET t == 10 * q.num
        lo == t \div q.den
        r == t % q.den
        tenths == IF 2 * r < q.den THEN lo
                  ELSE IF 2 * r > q.den THEN lo + 1
                  ELSE IF lo % 2 = 0 THEN lo ELSE lo + 1
    IN  Frac(tenths, 10)

\* astype(str) + "-luku"
Label(d) == <<d, "-luku">>

Presented(row) ==
    [Vuosikymmen |-> Label(row.Vuosikymmen),
     Keski_ika |-> Round1(row.Keski_ika),
     Henkilomaara |-> row.Henkilomaara]

\* line 99 when the frame has no year columns: KeyError, caught by the
\* handler's except clause, which shows st.error
DropNaKeyError ==
    /\ pc = "returned"
    /\ ~HasYearColumns(df)
    /\ pc' = "error"
    /\ UNCHANGED <<parserVars, yearVars, aggVars>>

DropNa ==
    /\ pc = "returned"
    /\ HasYearColumns(df)
    /\ df' = [df EXCEPT !.rows = DropNaRows(df.rows)]
    /\ pc' = "dropped"
    /\ UNCHANGED <<parserVars, yearVars, start_year, end_year, filtered_df,
                   stats, shown>>

ComputeAge ==
    /\ pc = "dropped"
    /\ df' = [columns |-> df.columns \cup {"age"},
              rows |-> [i \in 1..Len(df.rows) |-> WithAge(df.rows[i])]]
    /\ pc' = "aged"
    /\ UNCHANGED <<parserVars, yearVars, start_year, end_year, filtered_df,
                   stats, shown>>

FilterAge ==
    /\ pc = "aged"
    /\ df' = [df EXCEPT !.rows = SelectSeq(df.rows, PlausibleAge)]
    /\ pc' = "plausible"
    /\ UNCHANGED <<parserVars, yearVars, start_year, end_year, filtered_df,
                   stats, shown>>

FilterRange ==
    /\ pc = "plausible"
    /\ filtered_df' = [df EXCEPT !.rows = SelectSeq(df.rows, InRange)]
    /\ pc' = "filtered"
    /\ UNCHANGED <<parserVars, yearVars, start_year, end_year, df, stats, shown>>

\* filtered_df.empty: st.warning
Warn ==
    /\ pc = "filtered"
    /\ filtered_df.rows = <<>>
    /\ pc' = "warning"
    /\ UNCHANGED <<parserVars, yearVars, aggVars>>

\* lines 120 to 128: the table with one row per decade of the range
BuildStats ==
    /\ pc = "filtered"
    /\ filtered_df.rows # <<>>
    /\ stats' = LET merged == LeftMerge(AllDecades(start_year, end_year),
                                        GroupBy(filtered_df.rows))
                 IN  [k \in 1..Len(merged) |-> FillNa(merged[k])]
    /\ pc' = "merged"
    /\ UNCHANGED <<parserVars, yearVars, start_year, end_year, df, filtered_df,
                   shown>>

\* Present reporting the rows of filtered_df as the coverage
Present_FilteredCoverage ==
    /\ pc = "merged"
    /\ shown' = Some([analysed |-> SumSeq([k \in 1..Len(stats) |-> stats[k].Henkilomaara]),
                      coverage |-> Len(filtered_df.rows)])
    /\ stats' = [k \in 1..Len(stats) |-> Presented(stats[k])]
    /\ pc' = "shown"
    /\ UNCHANGED <<parserVars, yearVars, start_year, end_year, df, filtered_df>>

\* lines 131 to 153: the table as shown, and the two counts of st.info
Present ==
    /\ pc = "merged"
    /\ shown' = Some([analysed |-> SumSeq([k \in 1..Len(stats) |-> stats[k].Henkilomaara]),
                      coverage |-> Len(df.rows)])
    /\ stats' = [k \in 1..Len(stats) |-> Presented(stats[k])]
    /\ pc' = "shown"
    /\ UNCHANGED <<parserVars, yearVars, start_year, end_year, df, filtered_df>>

\* the years a record of the model is born and dies in
BirthYears == {1799, 1800, 1805, 1899, 1900}
DeathYears == {1800, 1875, 1919, 1920}

\* the ranges of the model: the program's own, and others
Ranges == {<<DefaultStart, DefaultEnd>>, <<1800, 1819>>, <<1805, 1899>>}

YearPairs == ({None} \cup {Some(y) : y \in BirthYears})
               \X ({None} \cup {Some(y) : y \in DeathYears})

IdChars == <<"1", "2", "3", "4", "5", "6", "7", "8", "9">>

\* a list of records a parse can return: any years or None
ParsedList(n, f) ==
    [i \in 1..n |-> [id |-> <<"@", IdChars[i], "@">>,
                     birth_year |-> f[i][1],
                     death_year |-> f[i][2]]]

InitAgg ==
    /\ pc = "returned"
    /\ \E n \in 0..MaxRecords : \E f \in [1..n -> YearPairs] :
          individuals = ParsedList(n, f)
    /\ df = DataFrame(individuals)
    /\ \E range \in Ranges : start_year = range[1] /\ end_year = range[2]
    /\ lines = <<>>
    /\ current_indi = None
    /\ last_tag = None
    /\ date_str = None
    /\ year = None
    /\ filtered_df = None
    /\ stats = <<>>
    /\ shown = None

NextAgg ==
    \/ DropNaKeyError
    \/ DropNa
    \/ ComputeAge
    \/ FilterAge
    \/ FilterRange
    \/ Warn
    \/ BuildStats
    \/ Present

SpecAgg == InitAgg /\ [][NextAgg]_vars

-----------------------------------------------------------------------------
(* What the input says, read off the lines themselves *)

\* a line "0 <tag> INDI", blanks around it aside, the tag holding no space
MarkerLine(l) ==
    LET s == Strip(l)
        n == Len(s)
    IN  /\ n >= 7
        /\ s[1] = "0" /\ s[2] = " "
        /\ SubSeq(s, n - 4, n) = SP \o INDI
        /\ \A k \in 3..(n - 5) : s[k] # " "

MarkerTag(l) == LET s == Strip(l) IN SubSeq(s, 3, Len(s) - 5)

\* the tag tokens of the marker lines of ls, in their order
RECURSIVE MarkerIds(_)
MarkerIds(ls) ==
    IF ls = <<>> THEN <<>>
    ELSE IF MarkerLine(Head(ls))
         THEN <<MarkerTag(Head(ls))>> \o MarkerIds(Tail(ls))
         ELSE MarkerIds(Tail(ls))

Ids(recs) == [i \in 1..Len(recs) |-> recs[i].id]

\* the tokens of a line: depth, tag (when it has one) and the rest
Tokens(l) == Split(Strip(l), 2)
HasTag(l) == Len(Tokens(l)) >= 2
DepthOf(l) == Tokens(l)[1]
TagOf(l) == Tokens(l)[2]
PayloadOf(l) == IF Len(Tokens(l)) >= 3 THEN Tokens(l)[3] ELSE <<>>

\* a depth-2 DATE line
DateLine(l) == HasTag(l) /\ DepthOf(l) = <<"2">> /\ TagOf(l) = DATE

\* position in ls of the last marker line, 0 when there is none
LastMarker(ls) ==
    IF \E k \in 1..Len(ls) : MarkerLine(ls[k])
    THEN CHOOSE k \in 1..Len(ls) :
            MarkerLine(ls[k]) /\ \A j \in (k + 1)..Len(ls) : ~MarkerLine(ls[j])
    ELSE 0

\* the tag of the most recent depth-1 line of ls after its last marker line,
\* None when there is none
RecentDepth1(ls) ==
    LET D1 == {k \in (LastMarker(ls) + 1)..Len(ls) :
                  HasTag(ls[k]) /\ DepthOf(ls[k]) = <<"1">>}
    IN  IF D1 = {} THEN None
        ELSE Some(TagOf(ls[CHOOSE k \in D1 : \A j \in D1 : j <= k]))

-----------------------------------------------------------------------------
(* C1: the parser returns exactly one record per individual-marker line, in *)
(* the order of the markers, each record's id being the tag token of its    *)
(* marker line; the individual of the last marker is among them.            *)
C1_OneRecordPerMarker ==
    pc = "returned" => Ids(individuals) = MarkerIds(lines)

\* two individuals returned, the second one's marker followed by other lines
\* and by no marker
C1_Witness ==
    /\ pc = "returned"
    /\ Len(lines) = 4
    /\ MarkerLine(lines[1]) /\ MarkerLine(lines[2])
    /\ ~MarkerLine(lines[3]) /\ ~MarkerLine(lines[4])
    /\ Len(individuals) = 2
    /\ individuals[2].id = MarkerTag(lines[2])

(* C2: while an individual is under construction, a DATE line changes a    *)
(* year of the current record only when the most recent depth-1 line since *)
(* the individual began was BIRT (then only birth_year changes) or DEAT    *)
(* (then only death_year changes); after another depth-1 tag it changes    *)
(* neither.                                                                *)
C2_DateNeedsEvent ==
    [][ ( /\ pc = "parsing" /\ pc' = "parsing"
          /\ current_indi # None
          /\ lines' # lines
          /\ ~MarkerLine(lines'[Len(lines')]) )
        => /\ current_indi' # None
           /\ Val(current_indi').id = Val(current_indi).id
           /\ ( Val(current_indi').birth_year # Val(current_indi).birth_year
                => /\ DateLine(lines'[Len(lines')])
                   /\ RecentDepth1(lines) = Some(BIRT) )
           /\ ( Val(current_indi').death_year # Val(current_indi).death_year
                => /\ DateLine(lines'[Len(lines')])
                   /\ RecentDepth1(lines) = Some(DEAT) ) ]_vars

\* BIRT, then another depth-1 tag, then a DATE line with a year: the birth
\* year stays absent
C2_Witness ==
    /\ pc = "parsing"
    /\ Len(lines) = 4
    /\ MarkerLine(lines[1])
    /\ HasTag(lines[2]) /\ DepthOf(lines[2]) = <<"1">> /\ TagOf(lines[2]) = BIRT
    /\ HasTag(lines[3]) /\ DepthOf(lines[3]) = <<"1">> /\ TagOf(lines[3]) = NAME
    /\ DateLine(lines[4]) /\ extract_year(Some(PayloadOf(lines[4]))) # None
    /\ current_indi # None
    /\ Val(current_indi).birth_year = None
    /\ Val(current_indi).death_year = None

-----------------------------------------------------------------------------
(* What the aggregation is to compute, read off the parsed records *)

\* both years present, age in 0..119 and birth year in the range
Qualifies(r) ==
    /\ r.birth_year # None
    /\ r.death_year # None
    /\ Val(r.death_year) - Val(r.birth_year) >= 0
    /\ Val(r.death_year) - Val(r.birth_year) < 120
    /\ start_year <= Val(r.birth_year)
    /\ Val(r.birth_year) <= end_year

\* the positions of the qualifying records born in the ten years from d
QualifyingIn(d) ==
    {i \in 1..Len(individuals) :
        /\ Qualifies(individuals[i])
        /\ Val(individuals[i].birth_year) - (Val(individuals[i].birth_year) % 10) = d}

RECURSIVE AgeSum(_)
AgeSum(I) ==
    IF I = {} THEN 0
    ELSE LET i == CHOOSE x \in I : TRUE
         IN  Val(individuals[i].death_year) - Val(individuals[i].birth_year)
               + AgeSum(I \ {i})

(* C3: a produced statistics table has exactly one row per decade value    *)
(* start, start+10, ... up to end, in ascending order and no other row,    *)
(* whether or not a record falls into the decade: (end - start) div 10 + 1 *)
(* rows, 10 rows 1800..1890 for the range 1800-1899.                       *)
C3_OneRowPerDecade ==
    pc \in {"merged", "shown"} =>
        /\ Len(stats) = (end_year - start_year) \div 10 + 1
        /\ \A k \in 1..Len(stats) :
              stats[k].Vuosikymmen =
                 IF pc = "merged" THEN start_year + 10 * (k - 1)
                 ELSE Label(start_year + 10 * (k - 1))
        /\ (start_year = 1800 /\ end_year = 1899 =>
               /\ Len(stats) = 10
               /\ stats[10].Vuosikymmen =
                     IF pc = "merged" THEN 1890 ELSE Label(1890))

\* the table of the range 1800-1899 with two decades filled and eight empty
C3_Witness ==
    /\ pc = "shown"
    /\ start_year = 1800 /\ end_year = 1899
    /\ Len(stats) = 10
    /\ stats[1].Henkilomaara = 1
    /\ stats[10].Henkilomaara = 1
    /\ \A k \in 2..9 : stats[k].Henkilomaara = 0

(* C4: in a produced table each decade row's count is the number of        *)
(* qualifying records whose floor(birth_year/10)*10 is that decade, and    *)
(* its mean age before rounding times its count is the sum of              *)
(* death_year - birth_year over those records; a decade with no            *)
(* qualifying record has mean 0 and count 0.                               *)
C4_CountAndMean ==
    pc = "merged" =>
        \A k \in 1..Len(stats) :
            LET row == stats[k]
                I == QualifyingIn(row.Vuosikymmen)
            IN  /\ row.Henkilomaara = Cardinality(I)
                /\ row.Keski_ika.num * row.Henkilomaara
                      = AgeSum(I) * row.Keski_ika.den
                /\ row.Keski_ika.den > 0
                /\ (I = {} => row.Keski_ika.num = 0 /\ row.Henkilomaara = 0)

\* a decade with two records whose mean age is no whole number, beside
\* decades with none
C4_Witness ==
    /\ pc = "merged"
    /\ \E k \in 1..Len(stats) :
          /\ stats[k].Henkilomaara = 2
          /\ stats[k].Keski_ika.den = 2
    /\ \E k \in 1..Len(stats) :
          stats[k].Henkilomaara = 0 /\ stats[k].Keski_ika.num = 0

(* C5: a parsed record contributes to the decade statistics if and only if *)
(* both years are present, 0 <= death_year - birth_year < 120 and          *)
(* start <= birth_year <= end: ages 0 and 119 are kept, age 120 and        *)
(* negative ages dropped, birth years start and end kept.                  *)
C5_ContributesIffQualifies ==
    pc \in {"filtered", "warning", "merged", "shown"} =>
        Ids(filtered_df.rows) = Ids(SelectSeq(individuals, Qualifies))

\* born in the first year of the range: the record of age 119 is kept,
\* the record of age 120 is dropped
C5_Witness ==
    /\ pc = "filtered"
    /\ Len(individuals) = 2
    /\ individuals[1].birth_year = Some(start_year)
    /\ individuals[1].death_year = Some(start_year + 119)
    /\ individuals[2].birth_year = Some(start_year)
    /\ individuals[2].death_year = Some(start_year + 120)
    /\ Ids(filtered_df.rows) = <<individuals[1].id>>

(* C6: the coverage total reported with the statistics is the number of    *)
(* individuals of the full parsed set that have both a birth_year and a    *)
(* death_year, counted independently of the range filter.                  *)
(* As stated it fails: a record with both years and an age below 0 or of   *)
(* 120 or more is not counted.                                             *)
C6_CoverageCountsBothYears ==
    pc = "shown" =>
        Val(shown).coverage =
            Cardinality({i \in 1..Len(individuals) : BothYears(individuals[i])})

(* C6 as amended: the coverage total is the number of individuals with     *)
(* both years present and 0 <= death_year - birth_year < 120, whatever     *)
(* their birth year: such a record born outside [start, end] is counted.   *)
C6_CoverageCountsPlausible ==
    pc = "shown" =>
        Val(shown).coverage =
            Cardinality({i \in 1..Len(individuals) :
                /\ BothYears(individuals[i])
                /\ Val(individuals[i].death_year) - Val(individuals[i].birth_year) >= 0
                /\ Val(individuals[i].death_year) - Val(individuals[i].birth_year) < 120})

\* two records with both years and a plausible age, one of them born outside
\* the range: one is analysed, two are covered
C6_Witness ==
    /\ pc = "shown"
    /\ Len(individuals) = 2
    /\ \E i \in 1..2 : BothYears(individuals[i]) /\ ~InRange(individuals[i])
    /\ Val(shown).analysed = 1
    /\ Val(shown).coverage = 2

(* C7: whenever no record of the parser's output qualifies, an output with *)
(* no record at all included, processing ends in the informational         *)
(* "no data in range" outcome and never in the error outcome.              *)
C7_EmptyResultIsNotAnError ==
    (\A i \in 1..Len(individuals) : ~Qualifies(individuals[i])) =>
        /\ pc # "error"
        /\ pc \notin {"merged", "shown"}

-----------------------------------------------------------------------------
(* C8: extract_year returns the value of the first run of exactly four     *)
(* decimal digits of the fragment, and no value when the fragment is       *)
(* absent, empty or has no such run: a digit run of another length does    *)
(* not by itself yield a year.                                             *)

\* a run of digits of s that starts at i and is exactly four long
ExactRunAt(s, i) ==
    /\ IsDigitsAt(s, i)
    /\ (i = 1 \/ s[i - 1] \notin Digits)
    /\ (i + 4 > Len(s) \/ s[i + 4] \notin Digits)

FirstExactRunYear(d) ==
    IF d = None THEN None
    ELSE LET s == Val(d)
             R == {i \in 1..Len(s) : ExactRunAt(s, i)}
         IN  IF R = {} THEN None
             ELSE Some(IntAt(s, CHOOSE i \in R : \A j \in R : i <= j))

C8_FirstRunOfExactlyFour ==
    pc = "ret" => year = FirstExactRunYear(date_str)

-----------------------------------------------------------------------------
(* The date lines of one individual *)

\* positions of the marker lines of ls, ascending
MarkerPositions(ls) == Sorted({k \in 1..Len(ls) : MarkerLine(ls[k])})

\* the lines of the i-th individual: from its marker line to the next one
Segment(ls, i) ==
    LET mp == MarkerPositions(ls)
    IN  SubSeq(ls, mp[i],
               IF i < Len(mp) THEN mp[i + 1] - 1 ELSE Len(ls))

\* positions in seg of the DATE lines of the event ev (BIRT or DEAT)
EventDates(seg, ev) ==
    {k \in 1..Len(seg) :
        DateLine(seg[k]) /\ RecentDepth1(SubSeq(seg, 1, k - 1)) = Some(ev)}

\* a date text with four digits in a row somewhere
Parseable(payload) == \E i \in 1..Len(payload) : IsDigitsAt(payload, i)

\* the year field of an event is absent only if no date of it was parseable
AbsentOnlyIfNeverParsed(seg, ev, field) ==
    field = None =>
        \A k \in EventDates(seg, ev) : ~Parseable(PayloadOf(seg[k]))

\* the year field of an event is absent exactly when the event has no date
\* line or its last one is not parseable
AbsentIffLastNotParsed(seg, ev, field) ==
    LET E == EventDates(seg, ev)
    IN  field = None <=>
           (E = {} \/ ~Parseable(PayloadOf(seg[CHOOSE k \in E : \A j \in E : j <= k])))

(* C9: in every returned record birth_year (death_year) is absent only if  *)
(* no DATE line with a parseable year was met for the individual's birth   *)
(* (death) event: once a parseable date was found the record has a year.   *)
(* As stated it fails: a later DATE line of the event without a year       *)
(* overwrites the year with None.                                          *)
C9_AbsentOnlyIfNeverParsed ==
    pc = "returned" =>
        \A i \in 1..Len(individuals) :
            /\ AbsentOnlyIfNeverParsed(Segment(lines, i), BIRT, individuals[i].birth_year)
            /\ AbsentOnlyIfNeverParsed(Segment(lines, i), DEAT, individuals[i].death_year)

(* C9 as amended: in every returned record birth_year (death_year) is      *)
(* absent exactly when no DATE line was met for the individual's birth     *)
(* (death) event or the last such DATE line has no parseable year; when    *)
(* the last DATE line of the event is parseable the record has a year.     *)
C9_AbsentIffLastNotParsed ==
    pc = "returned" =>
        /\ Len(individuals) = Len(MarkerPositions(lines))
        /\ \A i \in 1..Len(individuals) :
            /\ AbsentIffLastNotParsed(Segment(lines, i), BIRT, individuals[i].birth_year)
            /\ AbsentIffLastNotParsed(Segment(lines, i), DEAT, individuals[i].death_year)

\* a birth with two date lines, the first with a year and the last without:
\* the record returned has no birth year
C9_Witness ==
    /\ pc = "returned"
    /\ Len(lines) = 4
    /\ MarkerLine(lines[1])
    /\ EventDates(lines, BIRT) = {3, 4}
    /\ Parseable(PayloadOf(lines[3]))
    /\ ~Parseable(PayloadOf(lines[4]))
    /\ Len(individuals) = 1
    /\ individuals[1].birth_year = None

(* C10: the ids of the records returned by one parse are pairwise          *)
(* distinct, for every input, also when two marker lines carry the same    *)
(* tag token.                                                              *)
(* As stated it fails: two marker lines with one tag give two records with *)
(* one id.                                                                 *)
C10_IdsDistinct ==
    pc = "returned" =>
        \A i, j \in 1..Len(individuals) :
            i # j => individuals[i].id # individuals[j].id

(* C10 as amended: two records returned by one parse have the same id      *)
(* exactly when their marker lines carry the same tag token, so the ids    *)
(* are pairwise distinct whenever the tag tokens of the marker lines are.  *)
C10_IdsDistinctIffTagsDistinct ==
    pc = "returned" =>
        /\ Len(individuals) = Len(MarkerPositions(lines))
        /\ \A i, j \in 1..Len(individuals) :
              (individuals[i].id = individuals[j].id)
                 <=> (MarkerTag(lines[MarkerPositions(lines)[i]])
                        = MarkerTag(lines[MarkerPositions(lines)[j]]))

\* two marker lines with different tags: two records with different ids
C10_Witness ==
    /\ pc = "returned"
    /\ Len(MarkerPositions(lines)) = 2
    /\ MarkerTag(lines[MarkerPositions(lines)[1]])
          # MarkerTag(lines[MarkerPositions(lines)[2]])
    /\ Len(individuals) = 2
    /\ individuals[1].id # individuals[2].id

-----------------------------------------------------------------------------
\* the sum of the count column of the table
CountSum == SumSeq([k \in 1..Len(stats) |-> stats[k].Henkilomaara])

\* the number of parsed records that pass every filter
NumQualifying ==
    Cardinality({i \in 1..Len(individuals) : Qualifies(individuals[i])})

-----------------------------------------------------------------------------
\* the field of an event holds what the year extractor gives for the last
\* DATE line of the event, and nothing when the event has no DATE line
HoldsLastDate(seg, ev, field) ==
    LET E == EventDates(seg, ev)
    IN  IF E = {} THEN field = None
        ELSE field = extract_year(
                        Some(PayloadOf(seg[CHOOSE k \in E : \A j \in E : j <= k])))

(* C12: when several depth-2 DATE lines of the same event (BIRT or DEAT)   *)
(* occur within one individual, the finalized field holds the result of    *)
(* the year extractor applied to the last such line; earlier values are    *)
(* overwritten.                                                            *)
C12_LastDateWins ==
    pc = "returned" =>
        /\ Len(individuals) = Len(MarkerPositions(lines))
        /\ \A i \in 1..Len(individuals) :
            /\ HoldsLastDate(Segment(lines, i), BIRT, individuals[i].birth_year)
            /\ HoldsLastDate(Segment(lines, i), DEAT, individuals[i].death_year)

\* a birth with two date lines giving two different years: the record has
\* the year of the second
C12_Witness ==
    /\ pc = "returned"
    /\ Len(lines) = 4
    /\ MarkerLine(lines[1])
    /\ EventDates(lines, BIRT) = {3, 4}
    /\ extract_year(Some(PayloadOf(lines[3]))) = Some(1805)
    /\ extract_year(Some(PayloadOf(lines[4]))) = Some(1875)
    /\ Len(individuals) = 1
    /\ individuals[1].birth_year = Some(1875)

(* C13: once a record has been appended to the output list no later line  *)
(* changes its id, birth_year or death_year, and the part of the list      *)
(* already built never changes; later BIRT/DEAT dates change only the      *)
(* record under construction.                                              *)
C13_FinalizedNeverChanges ==
    [][ /\ Len(individuals') >= Len(individuals)
        /\ SubSeq(individuals', 1, Len(individuals)) = individuals ]_vars

\* a first record is finalized, then a birth date is read for the second:
\* the first record has no year, the one under construction has
C13_Witness ==
    /\ pc = "parsing"
    /\ Len(lines) = 4
    /\ MarkerLine(lines[1]) /\ MarkerLine(lines[2])
    /\ EventDates(SubSeq(lines, 2, 4), BIRT) = {3}
    /\ Len(individuals) = 1
    /\ individuals[1].birth_year = None
    /\ current_indi # None
    /\ Val(current_indi).birth_year # None

\* a line of none of the parser's transitions: fewer than two tokens, a
\* depth-0 line whose payload is not INDI, a depth-2 line whose tag is not
\* DATE, or a depth of 3 or more
IgnoredLine(l) ==
    \/ ~HasTag(l)
    \/ /\ HasTag(l)
       /\ \/ DepthOf(l) = <<"0">> /\ PayloadOf(l) # INDI
          \/ DepthOf(l) = <<"2">> /\ TagOf(l) # DATE
          \/ DepthOf(l) \in {<<"3">>, <<"4">>, <<"5">>, <<"6">>, <<"7">>,
                             <<"8">>, <<"9">>}

(* C14: a line that matches none of the parser's transitions is ignored: a *)
(* depth-0 line whose payload is not INDI, a line at depth 3 or deeper, a  *)
(* depth-2 line whose tag is not DATE and a line with fewer than two       *)
(* tokens each leave the output list, the record under construction and    *)
(* the remembered tag unchanged.                                           *)
C14_OtherLinesIgnored ==
    [][ ( /\ pc = "parsing" /\ pc' = "parsing"
          /\ lines' # lines
          /\ IgnoredLine(lines'[Len(lines')]) )
        => /\ individuals' = individuals
           /\ current_indi' = current_indi
           /\ last_tag' = last_tag ]_vars

\* after BIRT a line of another record type and a line at depth 3 are read:
\* the event is still remembered and the record is as it began
C14_Witness ==
    /\ pc = "parsing"
    /\ Len(lines) = 4
    /\ MarkerLine(lines[1])
    /\ HasTag(lines[2]) /\ DepthOf(lines[2]) = <<"1">> /\ TagOf(lines[2]) = BIRT
    /\ HasTag(lines[3]) /\ DepthOf(lines[3]) = <<"0">> /\ PayloadOf(lines[3]) # INDI
    /\ HasTag(lines[4]) /\ DepthOf(lines[4]) = <<"3">>
    /\ last_tag = Some(BIRT)
    /\ current_indi = Some(NewIndi(MarkerTag(lines[1])))
    /\ individuals = <<>>

=============================================================================
